---- MODULE Spec2Model ----
(***************************************************************************)
(* Model of ip_counter (most_effective_solution.go): the segmented bitmap, *)
(* the address codec, the batch reader and the producer / worker /         *)
(* watcher / aggregator pipeline of countUniqueIPs.                        *)
(*                                                                         *)
(* A uint32 is kept at its full width as a pair <<hi, lo>> of 16-bit limbs *)
(* (value = hi * 2^16 + lo), because the model checker's integers are      *)
(* narrower than 2^32.  Strings are sequences of byte values.              *)
(***************************************************************************)
EXTENDS Integers, Sequences, FiniteSets, TLC

----------------------------------------------------------------------------
(* Program constants (most_effective_solution.go:14-22).                   *)

BitmapSegments == 256
BitsInByte == 8

\* One 16-bit limb.
Limb == 2^16
\* MaxIP = 1 << 32 = MaxIPHigh * Limb.
MaxIPHigh == 2^16
\* MaxIP / BitmapSegments: ordinals per segment.
SegmentSpan == (MaxIPHigh \div BitmapSegments) * Limb
\* MaxIP / BitmapSegments / BitsInByte.
BytesPerSegment == SegmentSpan \div BitsInByte

\* Scaled-down configuration: the source has 8 workers, and batches of 250000
\* lines where a run of the model has batches of 1 to MaxBatchSize lines.
WorkerCount == 2
MaxBatchSize == 2

\* Characters the code names.
CharDot == 46
CharZero == 48
CharNL == 10

----------------------------------------------------------------------------
(* uint32 arithmetic on limbs.                                             *)

U32(hi, lo) == <<hi, lo>>
U32Zero == U32(0, 0)

\* uint32(n) for an int n with |n| < 2^31 (two's-complement wrap).
U32OfInt(n) == U32((n \div Limb) % Limb, n % Limb)

U32Add(x, y) ==
  LET lo == x[2] + y[2]
      hi == x[1] + y[1] + (lo \div Limb)
  IN  U32(hi % Limb, lo % Limb)

\* x * k mod 2^32 for a small k.
U32MulSmall(x, k) ==
  LET lo == x[2] * k
      hi == x[1] * k + (lo \div Limb)
  IN  U32(hi % Limb, lo % Limb)

\* x << n mod 2^32; a shift count of 32 or more gives 0, as in Go.
U32Shl(x, n) ==
  IF n >= 32 THEN U32Zero
  ELSE IF n >= 16 THEN U32((x[2] * 2^(n - 16)) % Limb, 0)
  ELSE U32((((x[1] * 2^n) % Limb) + ((x[2] * 2^n) \div Limb)) % Limb, (x[2] * 2^n) % Limb)

\* x / d and x % d for a divisor d that is a multiple of one limb.
U32DivSpan(x, d) == x[1] \div (d \div Limb)
U32ModSpan(x, d) == (x[1] % (d \div Limb)) * Limb + x[2]

----------------------------------------------------------------------------
(* Strings: sequences of byte values.                                      *)

\* strings.Split(s, sep) for a one-byte separator: always at least one piece.
RECURSIVE SplitFrom(_, _, _, _)
SplitFrom(s, sep, i, cur) ==
  IF i > Len(s) THEN <<cur>>
  ELSE IF s[i] = sep THEN <<cur>> \o SplitFrom(s, sep, i + 1, <<>>)
  ELSE SplitFrom(s, sep, i + 1, Append(cur, s[i]))

Split(s, sep) == SplitFrom(s, sep, 1, <<>>)

\* unicode.IsSpace on the ASCII range: \t \n \v \f \r and space.
IsSpace(c) == c \in {9, 10, 11, 12, 13, 32}

RECURSIVE TrimLeft(_)
TrimLeft(s) == IF s # <<>> /\ IsSpace(Head(s)) THEN TrimLeft(Tail(s)) ELSE s

RECURSIVE TrimRight(_)
TrimRight(s) ==
  IF s # <<>> /\ IsSpace(s[Len(s)]) THEN TrimRight(SubSeq(s, 1, Len(s) - 1)) ELSE s

\* strings.TrimSpace.
TrimSpace(s) == TrimRight(TrimLeft(s))

----------------------------------------------------------------------------
(* ipToInt (most_effective_solution.go:72-83).                             *)

\* Mutant: the value of a piece is cut down to one octet.
RECURSIVE SegmentValueMasked(_, _)
SegmentValueMasked(segment, value) ==
  IF segment = <<>> THEN U32(0, value[2] % 2^BitsInByte)
  ELSE SegmentValueMasked(Tail(segment),
                          U32Add(U32MulSmall(value, 10), U32OfInt(Head(segment) - CharZero)))

\* The inner loop: value = value*10 + uint32(c-'0') over the characters.
RECURSIVE SegmentValue(_, _)
SegmentValue(segment, value) ==
  IF segment = <<>> THEN value
  ELSE SegmentValue(Tail(segment),
                    U32Add(U32MulSmall(value, 10), U32OfInt(Head(segment) - CharZero)))

\* Mutant: the first piece is shifted least.
ShiftCountReversed(i) == IF i <= 3 THEN BitsInByte * i ELSE 32

\* BitsInByte * uint(3-i): past the fourth piece uint(3-i) wraps to a huge
\* count, and a shift by 32 or more yields 0.
ShiftCount(i) == IF i <= 3 THEN BitsInByte * (3 - i) ELSE 32

\* The outer loop over the pieces, i counted from 0.
RECURSIVE IpLoop(_, _, _)
IpLoop(segs, i, result) ==
  IF i >= Len(segs) THEN result
  ELSE IpLoop(segs, i + 1,
              U32Add(result, U32Shl(SegmentValue(segs[i + 1], U32Zero), ShiftCount(i))))

ipToInt(ip) == IpLoop(Split(ip, CharDot), 0, U32Zero)

----------------------------------------------------------------------------
(* SegmentedBitmap.MarkIP index arithmetic (most_effective_solution.go:43-46). *)

\* Mutant: the segment is chosen by remainder instead of by range.
SegmentIndexByRemainder(ipInt) == ipInt[2] % BitmapSegments

SegmentIndex(ipInt) == U32DivSpan(ipInt, SegmentSpan)
LocalIP(ipInt) == U32ModSpan(ipInt, SegmentSpan)
ByteIndex(ipInt) == LocalIP(ipInt) \div BitsInByte
BitOffset(ipInt) == LocalIP(ipInt) % BitsInByte

\* b & (1 << off) != 0 on a byte.
BitIsSet(b, off) == (b \div (2^off)) % 2 = 1
\* Mutant: the byte is assigned the mask instead of being or-ed with it.
OrBitOverwrite(b, off) == 2^off

\* Mutant: the mask covers every bit up to off: b | ((1 << (off+1)) - 1).
OrBitThrough(b, off) == (b \div 2^(off + 1)) * 2^(off + 1) + (2^(off + 1) - 1)

\* b | (1 << off) on a byte.
OrBit(b, off) == IF BitIsSet(b, off) THEN b ELSE b + 2^off

----------------------------------------------------------------------------
(* Inputs.                                                                 *)

\* Longest input, in lines.
MaxLines == 3

\* Decimal text of a natural number.
RECURSIVE Dec(_)
Dec(n) == IF n < 10 THEN <<CharZero + n>> ELSE Append(Dec(n \div 10), CharZero + (n % 10))

\* The dotted-quad text a.b.c.d.
Quad(a, b, c, d) ==
  Dec(a) \o <<CharDot>> \o Dec(b) \o <<CharDot>> \o Dec(c) \o <<CharDot>> \o Dec(d)

\* Raw lines (without the newline): an empty line, two addresses stored in
\* the same byte of segment 0 (the second with a CR before the newline), and
\* one address of segment 1.
RawLines == { <<>>, Quad(0, 0, 0, 1), Quad(0, 0, 0, 2) \o <<13>>, Quad(1, 0, 0, 0) }

RECURSIVE Join(_, _)
Join(ls, terminated) ==
  IF ls = <<>> THEN <<>>
  ELSE IF Len(ls) = 1 THEN (IF terminated THEN ls[1] \o <<CharNL>> ELSE ls[1])
  ELSE ls[1] \o <<CharNL>> \o Join(Tail(ls), terminated)

\* Input files: up to MaxLines lines, the last one with or without its newline.
Files ==
  { Join(ls, t) : ls \in UNION { [1..n -> RawLines] : n \in 0..MaxLines }, t \in BOOLEAN }

----------------------------------------------------------------------------
(* State.                                                                  *)

Workers == 1..WorkerCount

VARIABLES
  batchSize,   \* this run's BatchSize
  file,        \* the bytes the input stream delivers
  endKind,     \* how the stream ends after them: "EOF", or "ERR" (a read error)
  openOK,      \* whether os.Open succeeds
  mainPc,      \* countUniqueIPs: "open", "aggregate", "cleanup", "returned"
  retErr,      \* the error countUniqueIPs returns ("none": not returned yet)
  totalUnique, \* the aggregation loop's running total, then the returned count
  segments,    \* sb.segments: [live, bytes]; bytes maps <<segment, byte index>>
               \* to each non-zero byte, every other byte being 0
  mutexes,     \* sb.mutexes: the segment indices whose mutex is locked
  rpos,        \* reader: number of bytes consumed
  prodPc,      \* producer goroutine: "idle", "read", "send", "close", "done"
  prodBatch,   \* the batch the producer holds
  batchChan,   \* buffered channel contents
  batchClosed,
  resultChan,
  resultClosed,
  wg,          \* the WaitGroup counter
  watcherPc,   \* completion goroutine: "idle", "wait", "done"
  wPc,         \* worker w: "idle", "recv", "loop", "lock", "test", "set", "unlock", "send", "done"
  wBatch,      \* worker w's current batch
  wIdx,        \* position in it (from 1)
  wCount,      \* processBatch's uniqueCount
  wIp,         \* MarkIP's ipInt
  wRet,        \* MarkIP's return value
  emitted,     \* history: the batches readBatch has returned, in order
  readErr,     \* history: the error that stopped the producer ("none" so far)
  nextId,      \* history: number of batches put on the batch queue
  taken,       \* history: batch id -> the workers that received it, in order
  sentFor,     \* history: batch id -> number of results sent for it
  hist,        \* history: ordinal -> results of its MarkIP calls, in the order they took effect
  completed,   \* history: ordinals of the MarkIP calls that have returned
  released,    \* history: number of sb.Cleanup() calls made
  closedBy,    \* history: the close() calls made, as <<channel, task>>, in order
  results,     \* history: the values sent on the result channel, in order
  received,    \* history: the values the aggregation loop has received, in order
  unit         \* a single function called on its own: [fn, st, arg, pre, out]

vars == << batchSize, file, endKind, openOK, mainPc, retErr, totalUnique, segments, mutexes,
           rpos, prodPc, prodBatch, batchChan, batchClosed, resultChan, resultClosed,
           wg, watcherPc, wPc, wBatch, wIdx, wCount, wIp, wRet,
           emitted, readErr, nextId, taken, sentFor, hist, completed,
           released, closedBy, results, received, unit >>

\* What no step of a run changes.
inputVars == << batchSize, file, endKind, openOK, unit >>

\* Number of lines in one batch (most_effective_solution.go:15).
BatchSize == batchSize
mainVars == << mainPc, retErr, totalUnique >>
mapVars == << segments, mutexes >>
prodVars == << rpos, prodPc, prodBatch, emitted, readErr, nextId >>
chanVars == << batchChan, batchClosed, resultChan, resultClosed >>
workVars == << wPc, wBatch, wIdx, wCount, wIp, wRet >>
markHist == << taken, sentFor, hist, completed >>
flowHist == << released, closedBy, results, received >>
histVars == << markHist, flowHist >>

----------------------------------------------------------------------------
(* The buffered reader and readBatch (most_effective_solution.go:116-129). *)

\* Index of the first newline after position pos, or 0.
RECURSIVE NewlineAfter(_, _)
NewlineAfter(f, pos) ==
  IF pos >= Len(f) THEN 0
  ELSE IF f[pos + 1] = CharNL THEN pos + 1
  ELSE NewlineAfter(f, pos + 1)

\* reader.ReadString('\n') at position pos: the line through its newline, or
\* the rest of the data together with the error that ended the stream.
ReadString(f, kind, pos) ==
  LET j == NewlineAfter(f, pos)
  IN  IF j # 0 THEN [line |-> SubSeq(f, pos + 1, j), err |-> "nil", pos |-> j]
      ELSE [line |-> SubSeq(f, pos + 1, Len(f)), err |-> kind, pos |-> Len(f)]

\* Mutant: a batch being filled is returned on any error, not only on EOF.
RECURSIVE ReadBatchLoopKeepPartial(_, _, _, _)
ReadBatchLoopKeepPartial(f, kind, pos, batch) ==
  IF Len(batch) < BatchSize THEN
    LET r == ReadString(f, kind, pos)
    IN  IF r.err # "nil" THEN
          IF Len(batch) > 0
            THEN [batch |-> batch, err |-> "nil", pos |-> r.pos]
            ELSE [batch |-> <<>>, err |-> r.err, pos |-> r.pos]
        ELSE ReadBatchLoopKeepPartial(f, kind, r.pos, Append(batch, TrimSpace(r.line)))
  ELSE [batch |-> batch, err |-> "nil", pos |-> pos]

RECURSIVE ReadBatchLoop(_, _, _, _)
ReadBatchLoop(f, kind, pos, batch) ==
  IF Len(batch) < BatchSize THEN
    LET r == ReadString(f, kind, pos)
    IN  IF r.err # "nil" THEN
          IF r.err = "EOF" /\ Len(batch) > 0
            THEN [batch |-> batch, err |-> "nil", pos |-> r.pos]
            ELSE [batch |-> <<>>, err |-> r.err, pos |-> r.pos]
        ELSE ReadBatchLoop(f, kind, r.pos, Append(batch, TrimSpace(r.line)))
  ELSE [batch |-> batch, err |-> "nil", pos |-> pos]

readBatch(f, kind, pos) == ReadBatchLoop(f, kind, pos, <<>>)

----------------------------------------------------------------------------
(* The presence map.                                                       *)

\* NewSegmentedBitmap (most_effective_solution.go:31-37): every segment
\* allocated, every byte zero.
NewSegmentedBitmap == [live |-> TRUE, bytes |-> <<>>]

\* sb.segments[seg][idx].
ByteAt(sb, seg, idx) ==
  IF <<seg, idx>> \in DOMAIN sb.bytes THEN sb.bytes[<<seg, idx>>] ELSE 0

\* The test of line 52 for ipInt.
Marked(sb, ipInt) ==
  BitIsSet(ByteAt(sb, SegmentIndex(ipInt), ByteIndex(ipInt)), BitOffset(ipInt))

\* The assignment of line 57 for ipInt.
SetMark(sb, ipInt) ==
  LET seg == SegmentIndex(ipInt)
      idx == ByteIndex(ipInt)
      new == OrBit(ByteAt(sb, seg, idx), BitOffset(ipInt))
  IN  [sb EXCEPT !.bytes =
         (<<seg, idx>> :> new) @@ [k \in DOMAIN sb.bytes \ {<<seg, idx>>} |-> sb.bytes[k]]]

\* Mutant: Lock() never waits.
CanLockAlways(mx, seg) == TRUE

\* Mutant: one lock for the whole map.
CanLockGlobal(mx, seg) == mx = {}

\* sb.mutexes[seg].Lock() can proceed.
CanLock(mx, seg) == seg \notin mx

\* Mutant: no line is skipped.
IsSkippedNever(ip) == FALSE

\* processBatch's test for a line to skip (line 90).
IsSkipped(ip) == ip = <<>>

----------------------------------------------------------------------------
(* Initial state: before countUniqueIPs is called.                         *)

\* No function is being called on its own.
NoUnit == [fn |-> "none", st |-> "none", arg |-> <<>>, pre |-> <<>>, out |-> <<>>]

\* Every task at its start.
Idle ==
  /\ mainPc = "open"
  /\ retErr = "none"
  /\ totalUnique = 0
  /\ mutexes = {}
  /\ rpos = 0
  /\ prodPc = "idle"
  /\ prodBatch = <<>>
  /\ batchChan = <<>>
  /\ batchClosed = FALSE
  /\ resultChan = <<>>
  /\ resultClosed = FALSE
  /\ wg = 0
  /\ watcherPc = "idle"
  /\ wPc = [w \in Workers |-> "idle"]
  /\ wBatch = [w \in Workers |-> [id |-> 0, lines |-> <<>>]]
  /\ wIdx = [w \in Workers |-> 1]
  /\ wCount = [w \in Workers |-> 0]
  /\ wIp = [w \in Workers |-> U32Zero]
  /\ wRet = [w \in Workers |-> FALSE]
  /\ emitted = <<>>
  /\ readErr = "none"
  /\ nextId = 0
  /\ taken = <<>>
  /\ sentFor = <<>>
  /\ hist = <<>>
  /\ completed = {}
  /\ released = 0
  /\ closedBy = <<>>
  /\ results = <<>>
  /\ received = <<>>

Init ==
  /\ batchSize \in 1..MaxBatchSize
  /\ file \in Files
  /\ endKind \in {"EOF", "ERR"}
  /\ openOK \in BOOLEAN
  /\ unit = NoUnit
  /\ segments = [live |-> FALSE, bytes |-> <<>>]
  /\ Idle

----------------------------------------------------------------------------
(* countUniqueIPs (most_effective_solution.go:132-182).                    *)

\* Mutant: the failed open is reported as success.
OpenFailsSwallowed ==
  /\ mainPc = "open"
  /\ ~openOK
  /\ mainPc' = "returned"
  /\ retErr' = "nil"
  /\ UNCHANGED << inputVars, totalUnique, mapVars, prodVars, chanVars, wg, watcherPc,
                  workVars, histVars >>

\* Lines 133-136: the open fails and the call returns (0, error).
OpenFails ==
  /\ mainPc = "open"
  /\ ~openOK
  /\ mainPc' = "returned"
  /\ retErr' = "open"
  /\ UNCHANGED << inputVars, totalUnique, mapVars, prodVars, chanVars, wg, watcherPc,
                  workVars, histVars >>

\* Lines 133-176: the open succeeds; the map, the channels, the workers, the
\* producer and the completion goroutine are set up.
Start ==
  /\ mainPc = "open"
  /\ openOK
  /\ mainPc' = "aggregate"
  /\ segments' = NewSegmentedBitmap
  /\ wg' = WorkerCount
  /\ wPc' = [w \in Workers |-> "recv"]
  /\ prodPc' = "read"
  /\ watcherPc' = "wait"
  /\ totalUnique' = 0
  /\ UNCHANGED << inputVars, retErr, mutexes, rpos, prodBatch, emitted, readErr, nextId,
                  chanVars, wBatch, wIdx, wCount, wIp, wRet, histVars >>

\* Lines 158-165: one readBatch call and the tests on its error.
ProducerRead ==
  /\ prodPc = "read"
  /\ LET r == readBatch(file, endKind, rpos)
     IN  /\ rpos' = r.pos
         /\ IF r.err = "nil"
              THEN /\ prodBatch' = r.batch
                   /\ emitted' = Append(emitted, r.batch)
                   /\ prodPc' = "send"
                   /\ readErr' = readErr
              ELSE /\ prodBatch' = <<>>
                   /\ emitted' = emitted
                   /\ prodPc' = "close"
                   /\ readErr' = r.err
  /\ UNCHANGED << inputVars, mainVars, mapVars, nextId, chanVars, wg, watcherPc,
                  workVars, histVars >>

\* Mutant: the send never waits for room in the buffer.
ProducerSendUnbounded ==
  /\ prodPc = "send"
  /\ batchChan' = Append(batchChan, [id |-> nextId + 1, lines |-> prodBatch])
  /\ nextId' = nextId + 1
  /\ prodPc' = "read"
  /\ UNCHANGED << inputVars, mainVars, mapVars, rpos, prodBatch, emitted, readErr,
                  batchClosed, resultChan, resultClosed, wg, watcherPc, workVars, histVars >>

\* Line 166: batchChan <- batch, blocking while the buffer is full.
ProducerSend ==
  /\ prodPc = "send"
  /\ Len(batchChan) < WorkerCount
  /\ batchChan' = Append(batchChan, [id |-> nextId + 1, lines |-> prodBatch])
  /\ nextId' = nextId + 1
  /\ prodPc' = "read"
  /\ UNCHANGED << inputVars, mainVars, mapVars, rpos, prodBatch, emitted, readErr,
                  batchClosed, resultChan, resultClosed, wg, watcherPc, workVars, histVars >>

\* Mutant: the producer ends without closing the batch channel.
ProducerEndsUnclosed ==
  /\ prodPc = "close"
  /\ prodPc' = "done"
  /\ UNCHANGED << inputVars, mainVars, mapVars, rpos, prodBatch, emitted, readErr, nextId,
                  chanVars, wg, watcherPc, workVars, histVars >>

\* Line 156: the deferred close(batchChan).
ProducerClose ==
  /\ prodPc = "close"
  /\ batchClosed' = TRUE
  /\ prodPc' = "done"
  /\ closedBy' = Append(closedBy, <<"batchChan", "producer">>)
  /\ UNCHANGED << inputVars, mainVars, mapVars, rpos, prodBatch, emitted, readErr, nextId,
                  batchChan, resultChan, resultClosed, wg, watcherPc, workVars, markHist,
                  released, results, received >>

\* Mutant: the result channel is closed without waiting for the workers.
WatcherCloseEarly ==
  /\ watcherPc = "wait"
  /\ resultClosed' = TRUE
  /\ watcherPc' = "done"
  /\ closedBy' = Append(closedBy, <<"resultChan", "watcher">>)
  /\ UNCHANGED << inputVars, mainVars, mapVars, prodVars, batchChan, batchClosed,
                  resultChan, wg, workVars, markHist, released, results, received >>

\* Lines 171-174: wg.Wait() returns, then close(resultChan).
WatcherClose ==
  /\ watcherPc = "wait"
  /\ wg = 0
  /\ resultClosed' = TRUE
  /\ watcherPc' = "done"
  /\ closedBy' = Append(closedBy, <<"resultChan", "watcher">>)
  /\ UNCHANGED << inputVars, mainVars, mapVars, prodVars, batchChan, batchClosed,
                  resultChan, wg, workVars, markHist, released, results, received >>

\* Mutant: the total is assigned the received value instead of raised by it.
AggregateOverwrite ==
  /\ mainPc = "aggregate"
  /\ resultChan # <<>>
  /\ totalUnique' = Head(resultChan).n
  /\ resultChan' = Tail(resultChan)
  /\ received' = Append(received, Head(resultChan))
  /\ UNCHANGED << inputVars, mainPc, retErr, mapVars, prodVars, batchChan, batchClosed,
                  resultClosed, wg, watcherPc, workVars, markHist, released, closedBy,
                  results >>

\* Lines 177-179: one iteration of the aggregation loop.
Aggregate ==
  /\ mainPc = "aggregate"
  /\ resultChan # <<>>
  /\ totalUnique' = totalUnique + Head(resultChan).n
  /\ resultChan' = Tail(resultChan)
  /\ received' = Append(received, Head(resultChan))
  /\ UNCHANGED << inputVars, mainPc, retErr, mapVars, prodVars, batchChan, batchClosed,
                  resultClosed, wg, watcherPc, workVars, markHist, released, closedBy,
                  results >>

\* Mutant: the loop ends as soon as the result channel is empty.
AggregateDoneEarly ==
  /\ mainPc = "aggregate"
  /\ resultChan = <<>>
  /\ mainPc' = "cleanup"
  /\ UNCHANGED << inputVars, retErr, totalUnique, mapVars, prodVars, chanVars, wg,
                  watcherPc, workVars, histVars >>

\* Line 177: the loop ends on the closed, drained result channel; line 181.
AggregateDone ==
  /\ mainPc = "aggregate"
  /\ resultChan = <<>>
  /\ resultClosed
  /\ mainPc' = "cleanup"
  /\ UNCHANGED << inputVars, retErr, totalUnique, mapVars, prodVars, chanVars, wg,
                  watcherPc, workVars, histVars >>

\* Lines 141 and 62-68: the deferred sb.Cleanup(), taking each segment's
\* mutex in turn; then the call returns (totalUnique, nil).
Cleanup ==
  /\ mainPc = "cleanup"
  /\ mutexes = {}
  /\ segments' = [live |-> FALSE, bytes |-> <<>>]
  /\ mainPc' = "returned"
  /\ retErr' = "nil"
  /\ released' = released + 1
  /\ UNCHANGED << inputVars, totalUnique, mutexes, prodVars, chanVars, wg, watcherPc,
                  workVars, markHist, closedBy, results, received >>

----------------------------------------------------------------------------
(* worker, processBatch and MarkIP (most_effective_solution.go:41-59, 87-113). *)

\* f with x appended to the sequence at key k (a missing key holds <<>>).
Logged(f, k, x) ==
  IF k \in DOMAIN f THEN [f EXCEPT ![k] = Append(@, x)]
  ELSE (k :> <<x>>) @@ f

\* f with the count at key k raised by one (a missing key holds 0).
Counted(f, k) ==
  IF k \in DOMAIN f THEN [f EXCEPT ![k] = @ + 1]
  ELSE (k :> 1) @@ f

\* Line 105: range batchChan receives the next batch.
WorkerRecv(w) ==
  /\ wPc[w] = "recv"
  /\ batchChan # <<>>
  /\ wBatch' = [wBatch EXCEPT ![w] = Head(batchChan)]
  /\ batchChan' = Tail(batchChan)
  /\ wIdx' = [wIdx EXCEPT ![w] = 1]
  /\ wCount' = [wCount EXCEPT ![w] = 0]
  /\ wPc' = [wPc EXCEPT ![w] = "loop"]
  /\ taken' = Logged(taken, Head(batchChan).id, w)
  /\ UNCHANGED << inputVars, mainVars, mapVars, prodVars, batchClosed, resultChan,
                  resultClosed, wg, watcherPc, wIp, wRet, sentFor, hist, completed,
                  flowHist >>

\* Lines 105 and 103: the batch channel is closed and drained; the worker
\* returns and its deferred wg.Done() runs.
WorkerExit(w) ==
  /\ wPc[w] = "recv"
  /\ batchChan = <<>>
  /\ batchClosed
  /\ wPc' = [wPc EXCEPT ![w] = "done"]
  /\ wg' = wg - 1
  /\ UNCHANGED << inputVars, mainVars, mapVars, prodVars, chanVars, watcherPc,
                  wBatch, wIdx, wCount, wIp, wRet, histVars >>

\* Lines 89-93: the head of processBatch's loop for the next line: the loop
\* ends, the line is skipped, or it is encoded and MarkIP is entered.
WorkerLoop(w) ==
  /\ wPc[w] = "loop"
  /\ IF wIdx[w] > Len(wBatch[w].lines)
       THEN /\ wPc' = [wPc EXCEPT ![w] = "send"]
            /\ UNCHANGED << wIdx, wIp >>
       ELSE IF IsSkipped(wBatch[w].lines[wIdx[w]])
         THEN /\ wIdx' = [wIdx EXCEPT ![w] = @ + 1]
              /\ UNCHANGED << wPc, wIp >>
         ELSE /\ wIp' = [wIp EXCEPT ![w] = ipToInt(wBatch[w].lines[wIdx[w]])]
              /\ wPc' = [wPc EXCEPT ![w] = "lock"]
              /\ UNCHANGED wIdx
  /\ UNCHANGED << inputVars, mainVars, mapVars, prodVars, chanVars, wg, watcherPc,
                  wBatch, wCount, wRet, histVars >>

\* Line 48: sb.mutexes[segmentIndex].Lock().
MarkLock(w) ==
  /\ wPc[w] = "lock"
  /\ CanLock(mutexes, SegmentIndex(wIp[w]))
  /\ mutexes' = mutexes \cup {SegmentIndex(wIp[w])}
  /\ wPc' = [wPc EXCEPT ![w] = "test"]
  /\ UNCHANGED << inputVars, mainVars, segments, prodVars, chanVars, wg, watcherPc,
                  wBatch, wIdx, wCount, wIp, wRet, histVars >>

\* Lines 52-54: the test of the bit, which decides the call's result.
MarkTest(w) ==
  /\ wPc[w] = "test"
  /\ IF Marked(segments, wIp[w])
       THEN /\ wRet' = [wRet EXCEPT ![w] = FALSE]
            /\ wPc' = [wPc EXCEPT ![w] = "unlock"]
       ELSE /\ wRet' = [wRet EXCEPT ![w] = TRUE]
            /\ wPc' = [wPc EXCEPT ![w] = "set"]
  /\ hist' = Logged(hist, wIp[w], ~Marked(segments, wIp[w]))
  /\ UNCHANGED << inputVars, mainVars, mapVars, prodVars, chanVars, wg, watcherPc,
                  wBatch, wIdx, wCount, wIp, taken, sentFor, completed, flowHist >>

\* Line 57: the bit is set.
MarkSet(w) ==
  /\ wPc[w] = "set"
  /\ segments' = SetMark(segments, wIp[w])
  /\ wPc' = [wPc EXCEPT ![w] = "unlock"]
  /\ UNCHANGED << inputVars, mainVars, mutexes, prodVars, chanVars, wg, watcherPc,
                  wBatch, wIdx, wCount, wIp, wRet, histVars >>

\* Mutant: every MarkIP call is counted, whatever it returns.
MarkUnlockCountAll(w) ==
  /\ wPc[w] = "unlock"
  /\ mutexes' = mutexes \ {SegmentIndex(wIp[w])}
  /\ wCount' = [wCount EXCEPT ![w] = @ + 1]
  /\ wIdx' = [wIdx EXCEPT ![w] = @ + 1]
  /\ wPc' = [wPc EXCEPT ![w] = "loop"]
  /\ completed' = completed \cup {wIp[w]}
  /\ UNCHANGED << inputVars, mainVars, segments, prodVars, chanVars, wg, watcherPc,
                  wBatch, wIp, wRet, taken, sentFor, hist, flowHist >>

\* Line 49 and lines 94-96: the deferred Unlock, MarkIP returns, and
\* processBatch counts a true result and moves to the next line.
MarkUnlock(w) ==
  /\ wPc[w] = "unlock"
  /\ mutexes' = mutexes \ {SegmentIndex(wIp[w])}
  /\ wCount' = [wCount EXCEPT ![w] = IF wRet[w] THEN @ + 1 ELSE @]
  /\ wIdx' = [wIdx EXCEPT ![w] = @ + 1]
  /\ wPc' = [wPc EXCEPT ![w] = "loop"]
  /\ completed' = completed \cup {wIp[w]}
  /\ UNCHANGED << inputVars, mainVars, segments, prodVars, chanVars, wg, watcherPc,
                  wBatch, wIp, wRet, taken, sentFor, hist, flowHist >>

\* Mutant: a batch with no new address sends no result.
WorkerSendNonZero(w) ==
  /\ wPc[w] = "send"
  /\ Len(resultChan) < WorkerCount
  /\ IF wCount[w] > 0
       THEN /\ resultChan' = Append(resultChan, [id |-> wBatch[w].id, n |-> wCount[w]])
            /\ sentFor' = Counted(sentFor, wBatch[w].id)
            /\ results' = Append(results, [id |-> wBatch[w].id, n |-> wCount[w]])
       ELSE UNCHANGED << resultChan, sentFor, results >>
  /\ wPc' = [wPc EXCEPT ![w] = "recv"]
  /\ UNCHANGED << inputVars, mainVars, mapVars, prodVars, batchChan, batchClosed,
                  resultClosed, wg, watcherPc, wBatch, wIdx, wCount, wIp, wRet,
                  taken, hist, completed, released, closedBy, received >>

\* Line 111: resultChan <- uniqueCount, blocking while the buffer is full.
WorkerSend(w) ==
  /\ wPc[w] = "send"
  /\ Len(resultChan) < WorkerCount
  /\ resultChan' = Append(resultChan, [id |-> wBatch[w].id, n |-> wCount[w]])
  /\ sentFor' = Counted(sentFor, wBatch[w].id)
  /\ results' = Append(results, [id |-> wBatch[w].id, n |-> wCount[w]])
  /\ wPc' = [wPc EXCEPT ![w] = "recv"]
  /\ UNCHANGED << inputVars, mainVars, mapVars, prodVars, batchChan, batchClosed,
                  resultClosed, wg, watcherPc, wBatch, wIdx, wCount, wIp, wRet,
                  taken, hist, completed, released, closedBy, received >>

WorkerStep(w) ==
  \/ WorkerRecv(w)
  \/ WorkerExit(w)
  \/ WorkerLoop(w)
  \/ MarkLock(w)
  \/ MarkTest(w)
  \/ MarkSet(w)
  \/ MarkUnlock(w)
  \/ WorkerSend(w)

ProducerStep == ProducerRead \/ ProducerSend \/ ProducerClose

MainStep == OpenFails \/ Start \/ Aggregate \/ AggregateDone \/ Cleanup

Next ==
  \/ MainStep
  \/ ProducerStep
  \/ WatcherClose
  \/ \E w \in Workers : WorkerStep(w)

Spec == Init /\ [][Next]_vars

\* The Go scheduler runs every goroutine that can take a step; all that is
\* assumed of it here is the weaker condition that the program does not stop
\* while some goroutine can take a step.
Fairness == WF_vars(Next)

\* The inputs of the runs checked for termination: empty lines and one address.
FairLines == { <<>>, Quad(0, 0, 0, 1) }

FairFiles ==
  { Join(ls, t) : ls \in UNION { [1..n -> FairLines] : n \in 0..MaxLines }, t \in BOOLEAN }

FairInit == Init /\ file \in FairFiles

FairSpec == FairInit /\ [][Next]_vars /\ Fairness

\* The runs checked for backpressure: one line per batch, and more batches
\* than the queue, the workers and the producer can hold together.
FlowBatches == 2 * WorkerCount + 2

FlowFile == Join([i \in 1..FlowBatches |-> Quad(0, 0, 0, 1)], TRUE)

FlowInit ==
  /\ batchSize = 1
  /\ file = FlowFile
  /\ endKind \in {"EOF", "ERR"}
  /\ openOK \in BOOLEAN
  /\ unit = NoUnit
  /\ segments = [live |-> FALSE, bytes |-> <<>>]
  /\ Idle

FlowSpec == FlowInit /\ [][Next]_vars

----------------------------------------------------------------------------
(* The functions called on their own, on one thread.                       *)

\* MarkIP (most_effective_solution.go:41-59) with no other caller running.
MarkIP(sb, ipInt) ==
  IF Marked(sb, ipInt) THEN [sb |-> sb, ret |-> FALSE]
  ELSE [sb |-> SetMark(sb, ipInt), ret |-> TRUE]

\* processBatch's loop (most_effective_solution.go:89-97); calls lists the
\* arguments of the MarkIP calls made.
RECURSIVE ProcessBatchLoop(_, _, _, _, _)
ProcessBatchLoop(batch, i, sb, uniqueCount, calls) ==
  IF i > Len(batch) THEN [count |-> uniqueCount, err |-> "nil", sb |-> sb, calls |-> calls]
  ELSE IF IsSkipped(batch[i]) THEN ProcessBatchLoop(batch, i + 1, sb, uniqueCount, calls)
  ELSE LET ipInt == ipToInt(batch[i])
           m == MarkIP(sb, ipInt)
       IN  ProcessBatchLoop(batch, i + 1, m.sb,
                            IF m.ret THEN uniqueCount + 1 ELSE uniqueCount,
                            Append(calls, ipInt))

processBatch(batch, sb) == ProcessBatchLoop(batch, 1, sb, 0, <<>>)

\* Octets, ordinals and bit positions the functions are called on.
OctetSamples == {0, 1, 9, 10, 168, 192, 255}
HiSamples == {0, 1, 255, 256, 257, 65535}
LoSamples == {0, 1, 7, 8, 9, 255, 65535}
SegmentSamples == {0, 1, BitmapSegments - 1}
ByteSamples == {0, 1, 8191, 8192, BytesPerSegment - 1}

\* n in three digits, zero-padded.
Dec3(n) == <<CharZero + (n \div 100), CharZero + ((n \div 10) % 10), CharZero + (n % 10)>>

\* The text of an address, plain or with every octet zero-padded.
QuadText(q, padded) ==
  IF padded
    THEN Dec3(q[1]) \o <<CharDot>> \o Dec3(q[2]) \o <<CharDot>> \o Dec3(q[3]) \o <<CharDot>> \o Dec3(q[4])
    ELSE Quad(q[1], q[2], q[3], q[4])

\* Batches of trimmed lines, up to MaxLines long.
BatchLines == { TrimSpace(l) : l \in RawLines }
Batches == UNION { [1..n -> BatchLines] : n \in 0..MaxLines }

\* The presence maps a run can have reached: some of the ordinals marked.
RECURSIVE MarkedAll(_, _)
MarkedAll(sb, os) ==
  IF os = {} THEN sb
  ELSE LET o == CHOOSE x \in os : TRUE IN MarkedAll(MarkIP(sb, o).sb, os \ {o})

Maps == { MarkedAll(NewSegmentedBitmap, os) :
            os \in SUBSET ({ ipToInt(l) : l \in BatchLines \ {<<>>} } \cup {U32Zero}) }

\* Lines that are not well-formed addresses: an octet above 255, three
\* octets, a non-digit character, five octets.
InvalidLines ==
  { Quad(0, 0, 0, 256),
    Dec(1) \o <<CharDot>> \o Dec(2) \o <<CharDot>> \o Dec(3),
    Dec(0) \o <<CharDot>> \o Dec(0) \o <<CharDot>> \o Dec(0) \o <<CharDot, 97>>,
    Quad(0, 0, 0, 1) \o <<CharDot>> \o Dec(7) }

\* Batches of up to two lines, well-formed or not.
MixedLines == InvalidLines \cup { <<>>, Quad(0, 0, 0, 1), Quad(0, 0, 1, 0) }
MixedBatches == UNION { [1..n -> MixedLines] : n \in 0..2 }

\* Dot-separated pieces as ipToInt is given them: the decimal text of a
\* number and its value modulo 2^32; the last one is 2^32 + 1.
Pieces ==
  { [text |-> Dec(n), val |-> U32OfInt(n)] : n \in {0, 1, 255, 256, 1000, 65536, 16777216} }
    \cup { [text |-> <<52, 50, 57, 52, 57, 54, 55, 50, 57, 55>>, val |-> U32(0, 1)] }

PieceLists == UNION { [1..n -> Pieces] : n \in 1..4 }

\* The pieces' texts joined by dots.
RECURSIVE Dotted(_)
Dotted(ps) ==
  IF Len(ps) = 1 THEN ps[1].text ELSE ps[1].text \o <<CharDot>> \o Dotted(Tail(ps))

UnitArg(fn, arg) == [fn |-> fn, st |-> "arg", arg |-> arg, pre |-> <<>>, out |-> <<>>]

UnitInit ==
  /\ batchSize = 1
  /\ file = <<>>
  /\ endKind = "EOF"
  /\ openOK = TRUE
  /\ Idle
  /\ \/ /\ unit \in { UnitArg("ipToInt", [quad |-> q, padded |-> p]) :
                         q \in OctetSamples \X OctetSamples \X OctetSamples \X OctetSamples,
                         p \in BOOLEAN }
        /\ segments = NewSegmentedBitmap
     \/ /\ unit \in { UnitArg("index", U32(h, l)) : h \in HiSamples, l \in LoSamples }
        /\ segments = NewSegmentedBitmap
     \/ /\ unit \in { UnitArg("cover", t) :
                         t \in SegmentSamples \X ByteSamples \X (0..(BitsInByte - 1)) }
        /\ segments = NewSegmentedBitmap
     \/ /\ unit \in { UnitArg("processBatch", b) : b \in Batches \cup MixedBatches }
        /\ segments \in Maps
     \/ /\ unit \in { UnitArg("encode", ps) : ps \in PieceLists }
        /\ segments = NewSegmentedBitmap

\* A step that only changes unit and the presence map.
UnitFrame ==
  UNCHANGED << batchSize, file, endKind, openOK, mainVars, mutexes, prodVars, chanVars,
               wg, watcherPc, workVars, histVars >>

\* ipToInt is called on the text.
CallIpToInt ==
  /\ unit.fn = "ipToInt" /\ unit.st = "arg"
  /\ unit' = [unit EXCEPT !.st = "ret",
                          !.out = ipToInt(QuadText(unit.arg.quad, unit.arg.padded))]
  /\ UNCHANGED segments
  /\ UnitFrame

\* ipToInt is called on dot-separated pieces of any value.
CallEncode ==
  /\ unit.fn = "encode" /\ unit.st = "arg"
  /\ unit' = [unit EXCEPT !.st = "ret", !.out = ipToInt(Dotted(unit.arg))]
  /\ UNCHANGED segments
  /\ UnitFrame

\* MarkIP's index arithmetic (lines 43-46) is applied to the ordinal.
CallIndex ==
  /\ unit.fn = "index" /\ unit.st = "arg"
  /\ unit' = [unit EXCEPT !.st = "ret",
                          !.out = <<SegmentIndex(unit.arg), ByteIndex(unit.arg),
                                    BitOffset(unit.arg)>>]
  /\ UNCHANGED segments
  /\ UnitFrame

\* The same, applied to the ordinal stored at a given bit position.
CallIndexOfPosition ==
  /\ unit.fn = "cover" /\ unit.st = "arg"
  /\ LET o == U32(unit.arg[1] * (SegmentSpan \div Limb)
                     + ((unit.arg[2] * BitsInByte + unit.arg[3]) \div Limb),
                   (unit.arg[2] * BitsInByte + unit.arg[3]) % Limb)
     IN  unit' = [unit EXCEPT !.st = "ret", !.pre = o,
                              !.out = <<SegmentIndex(o), ByteIndex(o), BitOffset(o)>>]
  /\ UNCHANGED segments
  /\ UnitFrame

\* processBatch is called on the batch and the map.
CallProcessBatch ==
  /\ unit.fn = "processBatch" /\ unit.st = "arg"
  /\ LET r == processBatch(unit.arg, segments)
     IN  /\ unit' = [unit EXCEPT !.st = "ret", !.pre = segments,
                                 !.out = [count |-> r.count, err |-> r.err, calls |-> r.calls]]
         /\ segments' = r.sb
  /\ UnitFrame

UnitNext ==
  CallIpToInt \/ CallEncode \/ CallIndex \/ CallIndexOfPosition \/ CallProcessBatch

UnitSpec == UnitInit /\ [][UnitNext]_vars

----------------------------------------------------------------------------
(* What the claims speak of.                                               *)

Range(q) == { q[i] : i \in DOMAIN q }

RECURSIVE Concat(_)
Concat(qs) == IF qs = <<>> THEN <<>> ELSE Head(qs) \o Concat(Tail(qs))

\* The newline-terminated lines of f, without their newlines.
CompleteLinesOf(f) ==
  LET parts == Split(f, CharNL) IN SubSeq(parts, 1, Len(parts) - 1)

\* The lines of f: the terminated ones, and a last line lacking its newline.
LinesOf(f) ==
  LET parts == Split(f, CharNL)
  IN  IF parts[Len(parts)] = <<>> THEN SubSeq(parts, 1, Len(parts) - 1) ELSE parts

Trimmed(ls) == [i \in DOMAIN ls |-> TrimSpace(ls[i])]

\* The ordinals obtained by encoding the non-empty lines among ls.
OrdinalsOf(ls) == { ipToInt(l) : l \in { x \in Range(Trimmed(ls)) : x # <<>> } }

\* The ordinal stored at bit k of byte idx of segment seg.
OrdinalAt(seg, idx, k) ==
  LET local == idx * BitsInByte + k
  IN  U32(seg * (SegmentSpan \div Limb) + (local \div Limb), local % Limb)

\* The ordinals whose bit is 1 in the presence map.
SetBits(sb) ==
  { OrdinalAt(q[1][1], q[1][2], q[2]) :
      q \in { r \in (DOMAIN sb.bytes) \X (0..(BitsInByte - 1)) : BitIsSet(sb.bytes[r[1]], r[2]) } }

\* The map exists: NewSegmentedBitmap has run and Cleanup has not.
MapInUse == mainPc \in {"aggregate", "cleanup"}

Returned == mainPc = "returned"

\* Every task of a run has ended.
Terminated ==
  /\ Returned
  /\ openOK => /\ prodPc = "done" /\ batchClosed
               /\ \A w \in Workers : wPc[w] = "done"
               /\ watcherPc = "done" /\ resultClosed
               /\ batchChan = <<>> /\ resultChan = <<>>

----------------------------------------------------------------------------
(* C1.  Whatever the batch size, the worker count and the interleaving,    *)
(* the total countUniqueIPs returns for an input that is read to its end   *)
(* is the number of distinct ordinals of the input's non-empty lines.      *)
(* It fails for an input whose last line lacks its newline (see C4).       *)

C1_TotalIsDistinctCount ==
  (Returned /\ retErr = "nil" /\ endKind = "EOF")
    => totalUnique = Cardinality(OrdinalsOf(LinesOf(file)))

\* What the code does return: the count over the newline-terminated lines.
C1_TotalOverTerminatedLines ==
  (Returned /\ retErr = "nil" /\ endKind = "EOF")
    => totalUnique = Cardinality(OrdinalsOf(CompleteLinesOf(file)))

----------------------------------------------------------------------------
(* C2.  For every ordinal, the first MarkIP call on it to take effect      *)
(* returns true and every later one returns false.                         *)

C2_FirstMarkWins ==
  \A o \in DOMAIN hist :
    /\ hist[o][1] = TRUE
    /\ \A i \in 2..Len(hist[o]) : hist[o][i] = FALSE

\* An ordinal has been marked three times, by calls of both workers' batches.
C2_Witness ==
  \E o \in DOMAIN hist : Len(hist[o]) >= 3

----------------------------------------------------------------------------
(* C3.  While the map exists, the bit of ordinal o is 1 iff a MarkIP(o)    *)
(* call has completed; all bits are 0 at creation; no set bit is cleared.  *)

\* C3 as claimed: the set bits are those of the completed calls.
C3_BitIffCompleted == MapInUse => SetBits(segments) = completed

\* The ordinals of the calls that have set their bit and not yet returned.
Setting == { wIp[w] : w \in { v \in Workers : wPc[v] = "unlock" /\ wRet[v] } }

\* C3 as amended: while the map exists the set bits are those of the calls
\* that have executed the assignment of line 57, whether completed or about
\* to unlock and return; all bits are 0 at creation; no set bit is cleared.
C3_BitIffSet ==
  /\ [](MapInUse => SetBits(segments) = completed \cup Setting)
  /\ [][mainPc = "open" /\ mainPc' = "aggregate" => SetBits(segments') = {}]_vars
  /\ [][MapInUse /\ MapInUse' => SetBits(segments) \subseteq SetBits(segments')]_vars

\* A call has set a bit that an earlier completed call left unset.
C3_Witness ==
  /\ MapInUse
  /\ Cardinality(completed) >= 2
  /\ Setting # {}
  /\ Setting \cap completed = {}

----------------------------------------------------------------------------
(* C4.  When the stream ends normally, the batches readBatch returned,     *)
(* concatenated, are the trimmed lines of the input, the last line         *)
(* included even without its newline; no batch exceeds BatchSize.          *)

C4_NoLineDropped ==
  (prodPc = "done" /\ readErr = "EOF")
    => /\ Concat(emitted) = Trimmed(LinesOf(file))
       /\ \A i \in DOMAIN emitted : Len(emitted[i]) <= BatchSize

\* What the code does: the newline-terminated lines are all emitted.
C4_TerminatedLinesEmitted ==
  (prodPc = "done" /\ readErr = "EOF")
    => /\ Concat(emitted) = Trimmed(CompleteLinesOf(file))
       /\ \A i \in DOMAIN emitted : Len(emitted[i]) <= BatchSize

----------------------------------------------------------------------------
(* C5.  After a read error other than end-of-stream the producer stops,    *)
(* countUniqueIPs returns a nil error, and the count is that of the        *)
(* distinct ordinals among the lines read before the error.                *)

\* C5 as claimed: every line read before the error is counted.
C5_CountOverReadPrefix ==
  (Returned /\ openOK /\ endKind = "ERR")
    => /\ retErr = "nil"
       /\ totalUnique = Cardinality(OrdinalsOf(CompleteLinesOf(file)))

\* The lines of the batches readBatch completes before the error: the lines
\* of a batch still being filled when the error occurs are discarded.
LinesInFullBatches(f) ==
  LET ls == CompleteLinesOf(f)
  IN  SubSeq(ls, 1, (Len(ls) \div BatchSize) * BatchSize)

\* C5 as amended: after a read error the producer stops, the call returns a
\* nil error, and the count is over the lines of the completed batches.
C5_CountOverFullBatches ==
  (Returned /\ openOK /\ endKind = "ERR")
    => /\ retErr = "nil"
       /\ readErr = "ERR"
       /\ prodPc = "done"
       /\ Concat(emitted) = Trimmed(LinesInFullBatches(file))
       /\ nextId = Len(emitted)
       /\ totalUnique = Cardinality(OrdinalsOf(LinesInFullBatches(file)))

\* A run ended by a read error that counted a full batch and discarded a
\* line read after it.
C5_Witness ==
  /\ Returned /\ openOK /\ endKind = "ERR"
  /\ totalUnique >= 1
  /\ Len(CompleteLinesOf(file)) > Len(LinesInFullBatches(file))

----------------------------------------------------------------------------
(* C7.  Every batch put on the batch queue is taken exactly once, by one   *)
(* worker, none is left when the pipeline ends, and each processed batch   *)
(* yields exactly one value on the result queue.                           *)

\* The ids of the batches waiting in the batch queue.
Queued == { batchChan[i].id : i \in DOMAIN batchChan }

\* The ids of the batches the workers are processing.
InWork == { wBatch[w].id : w \in { v \in Workers : wPc[v] \in {"loop", "lock", "test", "set", "unlock", "send"} } }

C7_EachBatchOnce ==
  /\ \A id \in DOMAIN taken : Len(taken[id]) = 1
  /\ \A id \in DOMAIN sentFor : sentFor[id] = 1
  /\ Len(batchChan) = Cardinality(Queued)
  /\ Queued \cap DOMAIN taken = {}
  /\ Queued \cup DOMAIN taken = 1..nextId
  /\ InWork \cap DOMAIN sentFor = {}
  /\ InWork \cup DOMAIN sentFor = DOMAIN taken
  /\ \A w \in Workers, v \in Workers :
        (w # v /\ wBatch[w].id \in InWork /\ wBatch[v].id \in InWork
           /\ wPc[w] \notin {"recv", "done", "idle"} /\ wPc[v] \notin {"recv", "done", "idle"})
          => wBatch[w].id # wBatch[v].id
  /\ (Terminated /\ openOK) => /\ DOMAIN taken = 1..nextId
                                /\ DOMAIN sentFor = 1..nextId

\* A finished run of three batches, in which both workers took batches.
C7_Witness ==
  /\ Terminated /\ openOK
  /\ nextId >= 3
  /\ \E i \in DOMAIN taken, j \in DOMAIN taken : taken[i] # taken[j]

----------------------------------------------------------------------------
(* C6.  Under fair scheduling every run terminates: the producer closes    *)
(* the batch queue, every worker drains it and ends, the watcher closes    *)
(* the result queue and the aggregator returns; no run gets stuck, even    *)
(* with more batches than the queues hold.                                 *)

\* C6: every fair run reaches the state in which every task has ended.
C6_Terminates == <>Terminated

\* A finished run that had more batches than either queue holds.
C6_Witness ==
  /\ Terminated /\ openOK
  /\ nextId > WorkerCount

\* No run gets stuck before it has terminated.
C6_NoDeadlock == Terminated \/ ENABLED Next

\* On the way: the producer is blocked on the full batch queue.
C6_ProducerBlocked == prodPc = "send" /\ Len(batchChan) = WorkerCount

\* On the way: a worker is blocked on the full result queue.
C6_WorkerBlocked == \E w \in Workers : wPc[w] = "send" /\ Len(resultChan) = WorkerCount

----------------------------------------------------------------------------
(* C8.  MarkIP's index arithmetic is a bijection from the ordinals onto    *)
(* the (segment, byte, bit) positions: every ordinal gets one in-bounds    *)
(* position, different ordinals get different positions, and every         *)
(* position is some ordinal's.                                             *)

C8_IndexBijection ==
  /\ (unit.fn = "index" /\ unit.st = "ret")
       => /\ unit.out[1] \in 0..(BitmapSegments - 1)
          /\ unit.out[2] \in 0..(BytesPerSegment - 1)
          /\ unit.out[3] \in 0..(BitsInByte - 1)
          /\ OrdinalAt(unit.out[1], unit.out[2], unit.out[3]) = unit.arg
  /\ (unit.fn = "cover" /\ unit.st = "ret")
       => /\ unit.pre[1] \in 0..(MaxIPHigh - 1)
          /\ unit.pre[2] \in 0..(Limb - 1)
          /\ unit.out = unit.arg

\* The last bit of the last byte of the last segment is the position of the
\* last ordinal.
C8_Witness ==
  /\ unit.fn = "cover" /\ unit.st = "ret"
  /\ unit.arg = <<BitmapSegments - 1, BytesPerSegment - 1, BitsInByte - 1>>
  /\ unit.pre = U32(Limb - 1, Limb - 1)

----------------------------------------------------------------------------
(* C9.  For a well-formed a.b.c.d with octets in 0..255, ipToInt returns   *)
(* a*2^24 + b*2^16 + c*2^8 + d, so that the ordinal determines the         *)
(* address.                                                                *)

C9_BigEndianPacking ==
  (unit.fn = "ipToInt" /\ unit.st = "ret")
    => LET q == unit.arg.quad
       IN  /\ unit.out = U32(q[1] * 2^8 + q[2], q[3] * 2^8 + q[4])
           /\ q = << unit.out[1] \div 2^8, unit.out[1] % 2^8,
                     unit.out[2] \div 2^8, unit.out[2] % 2^8 >>

\* 192.168.0.1 is encoded as 3232235521 = 49320 * 2^16 + 1.
C9_Witness ==
  /\ unit.fn = "ipToInt" /\ unit.st = "ret"
  /\ unit.arg = [quad |-> <<192, 168, 0, 1>>, padded |-> FALSE]
  /\ unit.out = U32(49320, 1)

----------------------------------------------------------------------------
(* C10.  processBatch calls MarkIP for no empty line: a batch of empty     *)
(* lines returns 0, no error, and leaves the map as it was; any batch      *)
(* gives what the batch without its empty lines gives.                     *)

NonEmpty(batch) == SelectSeq(batch, LAMBDA l : l # <<>>)

C10_EmptyLinesSkipped ==
  (unit.fn = "processBatch" /\ unit.st = "ret")
    => LET kept == NonEmpty(unit.arg)
           r == processBatch(kept, unit.pre)
       IN  /\ unit.out.calls = [i \in 1..Len(kept) |-> ipToInt(kept[i])]
           /\ unit.out.err = "nil"
           /\ kept = <<>> => (unit.out.count = 0 /\ segments = unit.pre)
           /\ unit.out.count = r.count
           /\ segments = r.sb

\* A batch with an empty line between two addresses, one of them new.
C10_Witness ==
  /\ unit.fn = "processBatch" /\ unit.st = "ret"
  /\ Len(unit.arg) = 3 /\ unit.arg[2] = <<>> /\ unit.arg[1] # <<>> /\ unit.arg[3] # <<>>
  /\ unit.out.count = 1

----------------------------------------------------------------------------
(* C11.  A line that is not a well-formed IPv4 address (wrong number of    *)
(* octets, a non-digit character, an octet above 255) is skipped like an   *)
(* empty line: processBatch makes no MarkIP call for it and it adds        *)
(* nothing to the count.  The code encodes and marks it (see C18).         *)

IsDigit(c) == c \in CharZero..(CharZero + 9)

\* The value of up to three decimal digits.
RECURSIVE DecValue(_)
DecValue(ds) ==
  IF ds = <<>> THEN 0 ELSE DecValue(SubSeq(ds, 1, Len(ds) - 1)) * 10 + (ds[Len(ds)] - CharZero)

\* Four dot-separated pieces, each one to three digits with a value up to 255.
WellFormed(l) ==
  LET ps == Split(l, CharDot)
  IN  /\ Len(ps) = 4
      /\ \A i \in 1..4 :
            /\ Len(ps[i]) \in 1..3
            /\ \A j \in 1..Len(ps[i]) : IsDigit(ps[i][j])
            /\ DecValue(ps[i]) <= 255

C11_InvalidLinesSkipped ==
  (unit.fn = "processBatch" /\ unit.st = "ret")
    => LET kept == SelectSeq(unit.arg, WellFormed)
           r == processBatch(kept, unit.pre)
       IN  /\ unit.out.calls = [i \in 1..Len(kept) |-> ipToInt(kept[i])]
           /\ unit.out.count = r.count
           /\ segments = r.sb

----------------------------------------------------------------------------
(* C18.  ipToInt always returns a uint32 and checks no range: for one to   *)
(* four dot-separated digit pieces it returns the sum of                   *)
(* value[i] * 2^(8*(3-i)) modulo 2^32, value[i] being the decimal value of *)
(* piece i modulo 2^32; so 0.0.0.256 gets the ordinal of 0.0.1.0 and the   *)
(* two count as one address.                                               *)

\* v * 2^(8*(3-i)) modulo 2^32, in limbs, for the piece at position i from 0.
Shifted(v, i) ==
  CASE i = 0 -> <<(v[2] % 2^8) * 2^8, 0>>
    [] i = 1 -> <<v[2], 0>>
    [] i = 2 -> <<(v[1] % 2^8) * 2^8 + (v[2] \div 2^8), (v[2] % 2^8) * 2^8>>
    [] i = 3 -> v

RECURSIVE SumHi(_, _)
SumHi(vs, i) == IF i > Len(vs) THEN 0 ELSE Shifted(vs[i], i - 1)[1] + SumHi(vs, i + 1)

RECURSIVE SumLo(_, _)
SumLo(vs, i) == IF i > Len(vs) THEN 0 ELSE Shifted(vs[i], i - 1)[2] + SumLo(vs, i + 1)

\* The sum of the shifted values modulo 2^32.
PackedSum(vs) ==
  <<(SumHi(vs, 1) + (SumLo(vs, 1) \div Limb)) % Limb, SumLo(vs, 1) % Limb>>

C18_CollisionCounted ==
  /\ unit.fn = "processBatch" /\ unit.st = "ret"
  /\ unit.arg = <<Quad(0, 0, 0, 256), Quad(0, 0, 1, 0)>>
  /\ unit.out.count = 1

----------------------------------------------------------------------------
(* C12.  In a run that constructs the presence map, Cleanup is called      *)
(* exactly once, after the aggregation loop has produced the final total,  *)
(* and from then on no MarkIP call starts or is in progress; a run whose   *)
(* open fails constructs no map and releases none.                         *)

\* Worker w is inside MarkIP.
InMarkIP(w) == wPc[w] \in {"lock", "test", "set", "unlock"}

C12_ReleasedOnceAtEnd ==
  /\ [](released <= 1)
  /\ [](segments.live => (openOK /\ released = 0))
  /\ []((Returned /\ openOK) => (released = 1 /\ ~segments.live))
  /\ [](~openOK => (released = 0 /\ ~segments.live))
  /\ []((mainPc = "cleanup" \/ released > 0) => \A w \in Workers : wPc[w] = "done")
  /\ [][released' # released =>
          /\ mainPc = "cleanup" /\ mainPc' = "returned"
          /\ resultClosed /\ resultChan = <<>> /\ received = results
          /\ totalUnique' = totalUnique]_vars
  /\ [][released > 0 => (\A w \in Workers : ~InMarkIP(w)') /\ segments' = segments]_vars

\* A run that marked two addresses has returned, its map released.
C12_Witness ==
  /\ Returned /\ openOK
  /\ released = 1
  /\ totalUnique >= 2
  /\ Cardinality(completed) >= 2

----------------------------------------------------------------------------
(* C13.  A failed open is the only failure returned: the call then returns *)
(* 0 and a non-nil error, and has constructed no map and started no        *)
(* producer, worker or watcher; after a successful open it returns a nil   *)
(* error, also when a read error stopped the producer.                     *)

\* Nothing beyond the open has happened.
NothingStarted ==
  /\ ~segments.live /\ released = 0 /\ mutexes = {}
  /\ prodPc = "idle" /\ watcherPc = "idle" /\ wg = 0
  /\ \A w \in Workers : wPc[w] = "idle"
  /\ rpos = 0 /\ emitted = <<>> /\ nextId = 0
  /\ batchChan = <<>> /\ resultChan = <<>> /\ closedBy = <<>>
  /\ DOMAIN hist = {} /\ results = <<>>

C13_OnlyOpenFailureSurfaced ==
  /\ ~openOK => NothingStarted
  /\ (Returned /\ ~openOK) => (retErr \notin {"nil", "none"} /\ totalUnique = 0)
  /\ (Returned /\ openOK) => retErr = "nil"

\* The open of a non-empty input has failed and the call has returned.
C13_Witness ==
  /\ Returned /\ ~openOK
  /\ retErr = "open"
  /\ file # <<>>

\* A run stopped by a read error has returned a nil error.
C13_ReadErrorNotSurfaced ==
  /\ Returned /\ openOK
  /\ readErr = "ERR"
  /\ retErr = "nil"

----------------------------------------------------------------------------
(* C14.  No two workers are between Lock and Unlock of the same segment    *)
(* at once; a worker holds at most one segment lock, that of its           *)
(* ordinal's segment; a worker about to lock segment i is not kept waiting *)
(* by workers holding other segments.                                      *)

\* Worker w is between Lock and Unlock.
Holding(w) == wPc[w] \in {"test", "set", "unlock"}

\* The segment of the ordinal worker w is marking.
SegmentOf(w) == SegmentIndex(wIp[w])

C14_SegmentLocksExclusive ==
  /\ \A w \in Workers, v \in Workers :
        (w # v /\ Holding(w) /\ Holding(v)) => SegmentOf(w) # SegmentOf(v)
  /\ mutexes = { SegmentOf(w) : w \in { v \in Workers : Holding(v) } }
  /\ \A w \in Workers :
        (wPc[w] = "lock" /\ \A v \in Workers \ {w} : Holding(v) => SegmentOf(v) # SegmentOf(w))
          => ENABLED MarkLock(w)

\* Two workers hold the locks of two different segments at once.
C14_Witness ==
  \E w \in Workers, v \in Workers :
    /\ Holding(w) /\ Holding(v)
    /\ SegmentOf(w) # SegmentOf(v)

\* A worker waits for the lock of a segment another worker holds.
C14_Contended ==
  \E w \in Workers, v \in Workers :
    /\ w # v /\ wPc[w] = "lock" /\ Holding(v)
    /\ SegmentOf(w) = SegmentOf(v)
    /\ ~ENABLED MarkLock(w)

\* A worker is about to lock a segment while another worker holds a
\* different one.
C14_Uncontended ==
  \E w \in Workers, v \in Workers :
    /\ w # v /\ wPc[w] = "lock" /\ Holding(v)
    /\ SegmentOf(w) # SegmentOf(v)

----------------------------------------------------------------------------
(* C15.  The batch queue is closed once, by the producer, after its last   *)
(* send; the result queue is closed once, by the watcher, after all        *)
(* workers have ended; nothing is sent on a closed queue.                  *)

ByProducer == <<"batchChan", "producer">>
ByWatcher == <<"resultChan", "watcher">>

C15_CloseProtocol ==
  /\ [](closedBy \in { <<>>, <<ByProducer>>, <<ByProducer, ByWatcher>> })
  /\ [](batchClosed <=> ByProducer \in Range(closedBy))
  /\ [](resultClosed <=> ByWatcher \in Range(closedBy))
  /\ [](batchClosed => prodPc = "done")
  /\ [](resultClosed => (wg = 0 /\ \A w \in Workers : wPc[w] = "done"))
  /\ [][batchClosed => (nextId' = nextId /\ Len(batchChan') <= Len(batchChan))]_vars
  /\ [][resultClosed => (results' = results /\ Len(resultChan') <= Len(resultChan))]_vars
  /\ []((Terminated /\ openOK) => closedBy = <<ByProducer, ByWatcher>>)

\* Both queues have been closed in a run that sent three batches and three
\* results.
C15_Witness ==
  /\ closedBy = <<ByProducer, ByWatcher>>
  /\ nextId >= 3
  /\ Len(results) >= 3

----------------------------------------------------------------------------
(* C16.  The total the aggregation loop returns is the sum of the values   *)
(* the workers sent: every value put on the result queue is received and   *)
(* added exactly once before the return, in whatever order they arrive.    *)

RECURSIVE SumN(_)
SumN(rs) == IF rs = <<>> THEN 0 ELSE Head(rs).n + SumN(Tail(rs))

C16_TotalIsSumOfResults ==
  /\ received \o resultChan = results
  /\ totalUnique = SumN(received)
  /\ (Returned /\ openOK) => (received = results /\ totalUnique = SumN(results))

\* A run has returned the sum of three results, sent out of batch order, one
\* of them 0.
C16_Witness ==
  /\ Returned /\ openOK
  /\ Len(results) = 3
  /\ results[1].id > results[2].id
  /\ \E i \in 1..3 : results[i].n = 0
  /\ totalUnique >= 2

----------------------------------------------------------------------------
(* C17.  The batch queue never holds more than WorkerCount batches, the    *)
(* producer waiting rather than exceeding it, so the batches read and not  *)
(* yet answered by a result are at most WorkerCount (queued) + WorkerCount *)
(* (one per worker) + 1 (held by the producer).                            *)

\* Number of batches readBatch has returned that no result has answered yet.
InFlight == Len(emitted) - Cardinality(DOMAIN sentFor)

\* Number of workers that hold a batch.
Busy == Cardinality({ w \in Workers : wPc[w] \in {"loop", "lock", "test", "set", "unlock", "send"} })

C17_BoundedInFlight ==
  /\ Len(batchChan) <= WorkerCount
  /\ (prodPc = "send" /\ Len(batchChan) = WorkerCount) => ~ENABLED ProducerSend
  /\ InFlight = Len(batchChan) + Busy + (IF prodPc = "send" THEN 1 ELSE 0)
  /\ InFlight <= WorkerCount + WorkerCount + 1

\* The bound is met: the queue is full, every worker has a batch and the
\* producer waits with one more, while the input has a further line.
C17_Witness ==
  /\ prodPc = "send"
  /\ Len(batchChan) = WorkerCount
  /\ ~ENABLED ProducerSend
  /\ InFlight = WorkerCount + WorkerCount + 1
  /\ rpos < Len(file)

----------------------------------------------------------------------------
(* C19.  MarkIP(o) changes at most the bit of o: a call that returns true  *)
(* sets that bit and leaves every other bit of the map as it is; a call    *)
(* that returns false leaves the whole map as it is; also with concurrent  *)
(* calls on different ordinals stored in the same byte.                    *)

\* The step is worker w's assignment of line 57 in a call that returns true.
SetsBit(w) == wPc[w] = "set" /\ wPc'[w] = "unlock" /\ wRet[w]

C19_OnlyOwnBit ==
  /\ [][(MapInUse /\ MapInUse')
          => \/ segments' = segments
             \/ \E w \in Workers :
                  /\ SetsBit(w)
                  /\ wIp[w] \notin SetBits(segments)
                  /\ SetBits(segments') = SetBits(segments) \cup {wIp[w]}
                  /\ \A k \in DOMAIN segments'.bytes : segments'.bytes[k] \in 1..(2^BitsInByte - 1)]_vars
  /\ [][\A w \in Workers :
          (InMarkIP(w) /\ ~(wRet[w] /\ wPc[w] = "set") /\ wPc'[w] # wPc[w])
            => segments' = segments]_vars

\* A call has just set the bit of one ordinal while another worker waits to
\* mark a different ordinal stored in the same byte, whose bit is still set.
C19_Witness ==
  \E w \in Workers, v \in Workers :
    /\ wPc[w] = "unlock" /\ wRet[w]
    /\ wPc[v] = "lock"
    /\ wIp[v] # wIp[w]
    /\ SegmentIndex(wIp[v]) = SegmentIndex(wIp[w])
    /\ ByteIndex(wIp[v]) = ByteIndex(wIp[w])
    /\ {wIp[v], wIp[w]} \subseteq SetBits(segments)

----------------------------------------------------------------------------
(* C20.  While the map exists, the number of set bits is the running total *)
(* plus the values waiting in the result queue plus the uniqueCount of     *)
(* every batch a worker holds; when the aggregation loop has ended the     *)
(* total is the number of set bits.                                        *)

\* The workers that hold a batch whose result is not yet sent.
Processing == { w \in Workers : wPc[w] \in {"loop", "lock", "test", "set", "unlock", "send"} }

RECURSIVE SumCounts(_)
SumCounts(ws) ==
  IF ws = {} THEN 0
  ELSE LET w == CHOOSE x \in ws : TRUE IN wCount[w] + SumCounts(ws \ {w})

\* What has been counted so far, anywhere in the pipeline.
CountedSoFar == totalUnique + SumN(resultChan) + SumCounts(Processing)

Uncounted == { w \in Workers : wPc[w] = "unlock" /\ wRet[w] }

====
